---- MODULE Spec2Model ----
(***************************************************************************)
(* Model of ImageDifferenceFinder (image_difference_finder.py).            *)
(*                                                                         *)
(* Region coordinates arrive from the detector as JSON numbers and may be  *)
(* fractional, so a coordinate is held as an integer count of 1/Scale      *)
(* pixel.  Thresholds, margins and canvas sizes are whole pixels (the      *)
(* signature's int parameters and PIL's img.size).  The rectangles that    *)
(* merge_and_adjust_regions returns went through int() and are held in     *)
(* whole pixels.                                                           *)
(***************************************************************************)
EXTENDS Integers, Sequences, FiniteSets

VARIABLES
    regions,             \* the list object the caller passes to merge_and_adjust_regions
    distance_threshold,
    margin,
    width,
    height,
    given,               \* history: the contents of regions when the call was made
    merged_regions,      \* the list the call returned
    clusters,            \* history: overlapping_regions of each iteration of the while loop
    boxes,               \* history: each iteration's bounding box before the margin
    remerged,            \* result of applying the function to its own result
    mpc,
    pc,                  \* position in process_images
    response,            \* what requests.post returned
    result,              \* what query_openai returned
    choice_no,           \* position of "for choice in result['choices']"
    adjusted_regions,
    idx,                 \* position of "for idx, region in enumerate(adjusted_regions)"
    printed,             \* the messages printed so far, "Saved: ..." lines left out
    saved,               \* the save_cropped_region calls made so far
    merge_calls          \* history: number of merge_and_adjust_regions calls so far

mvars == <<given, merged_regions, clusters, boxes, remerged, mpc>>

ovars == <<pc, response, result, choice_no, adjusted_regions, idx, printed, saved,
           merge_calls>>

params == <<distance_threshold, margin, width, height>>

vars == <<regions, params, mvars, ovars>>

----------------------------------------------------------------------------
(* Bounds of the model *)

Scale == 2           \* coordinate units per pixel (resolution of fractional inputs)
MaxRegions == 3      \* longest list of detected regions
MaxThreshold == 1    \* largest distance_threshold, in pixels
MaxMargin == 1       \* the margin, in pixels, when there is one
CanvasWidth == 2     \* image width, in pixels
CanvasHeight == 2    \* image height, in pixels
MaxChoices == 2      \* most completions in one response
MaxRunRegions == 2   \* longest regions list of one completion

----------------------------------------------------------------------------
(* Values *)

Region(x, y, w, h) ==
    [position_x |-> x * Scale, position_y |-> y * Scale,
     width |-> w * Scale, height |-> h * Scale]

\* The detected regions the model draws from, in units: left edges at 0, at
\* one pixel and at two and a fraction pixels, top edges at 0 and at a
\* fraction of a pixel, widths of a fraction of a pixel and of one pixel
PositionsX == {0, Scale, 2 * Scale + 1}
PositionsY == {0, 1}
Widths == {1, Scale}

Rects ==
    [position_x : PositionsX, position_y : PositionsY,
     width : Widths, height : {Scale}]

SeqsUpTo(S, n) == UNION {[1..k -> S] : k \in 0..n}

SetMin(S) == CHOOSE m \in S : \A n \in S : m <= n
SetMax(S) == CHOOSE m \in S : \A n \in S : m >= n

\* Python's max(a, b) and min(a, b) on two numbers
max(a, b) == IF a >= b THEN a ELSE b
min(a, b) == IF a <= b THEN a ELSE b

\* Python's int() on a number held in units: truncation toward zero, in pixels
int(v) == IF v >= 0 THEN v \div Scale ELSE -((-v) \div Scale)

----------------------------------------------------------------------------
(* merge_and_adjust_regions *)

\* Twice the centre of r, so that (x + width / 2) stays an integer
CenterX2(r) == 2 * r.position_x + r.width
CenterY2(r) == 2 * r.position_y + r.height

\* (2 * Scale * distance(r1, r2)) squared
distance2(r1, r2) ==
    (CenterX2(r1) - CenterX2(r2)) * (CenterX2(r1) - CenterX2(r2))
    + (CenterY2(r1) - CenterY2(r2)) * (CenterY2(r1) - CenterY2(r2))

WithinThresholdStrict(r1, r2, t) ==
    t >= 0 /\ distance2(r1, r2) < (2 * Scale * t) * (2 * Scale * t)

\* distance(region, other) <= distance_threshold; math.sqrt is never negative
WithinThreshold(r1, r2, t) ==
    t >= 0 /\ distance2(r1, r2) <= (2 * Scale * t) * (2 * Scale * t)

PopLast(list) ==
    [item |-> list[Len(list)], rest |-> SubSeq(list, 1, Len(list) - 1)]

\* list.pop(0)
Pop0(list) == [item |-> Head(list), rest |-> Tail(list)]

RemoveHead(list, v) == Tail(list)

\* list.remove(v): drops the first element equal to v
RECURSIVE Remove(_, _)
Remove(list, v) ==
    IF list = <<>> THEN <<>>
    ELSE IF Head(list) = v THEN Tail(list)
    ELSE <<Head(list)>> \o Remove(Tail(list), v)

\* for other in list(regions): ... over the copy taken after the pop
RECURSIVE ScanOthers(_, _, _, _, _)
ScanOthers(region, copy, regs, overlapping, t) ==
    IF copy = <<>> THEN [regions |-> regs, overlapping_regions |-> overlapping]
    ELSE LET other == Head(copy)
         IN IF WithinThreshold(region, other, t)
            THEN ScanOthers(region, Tail(copy), Remove(regs, other),
                            Append(overlapping, other), t)
            ELSE ScanOthers(region, Tail(copy), regs, overlapping, t)

BoundingBoxNoExtent(overlapping) ==
    LET I == 1..Len(overlapping)
    IN [min_x |-> SetMin({overlapping[i].position_x : i \in I}),
        min_y |-> SetMin({overlapping[i].position_y : i \in I}),
        max_x |-> SetMax({overlapping[i].position_x : i \in I}),
        max_y |-> SetMax({overlapping[i].position_y : i \in I})]

\* the min(...) and max(...) generator expressions, before the margin is applied
BoundingBox(overlapping) ==
    LET I == 1..Len(overlapping)
    IN [min_x |-> SetMin({overlapping[i].position_x : i \in I}),
        min_y |-> SetMin({overlapping[i].position_y : i \in I}),
        max_x |-> SetMax({overlapping[i].position_x + overlapping[i].width : i \in I}),
        max_y |-> SetMax({overlapping[i].position_y + overlapping[i].height : i \in I})]

ExpandMinOnly(box, m) ==
    [min_x |-> box.min_x - m * Scale, min_y |-> box.min_y - m * Scale,
     max_x |-> box.max_x, max_y |-> box.max_y]

\* "- margin" and "+ margin"
Expand(box, m) ==
    [min_x |-> box.min_x - m * Scale, min_y |-> box.min_y - m * Scale,
     max_x |-> box.max_x + m * Scale, max_y |-> box.max_y + m * Scale]

ClampMinOnly(box, w, h) ==
    [min_x |-> max(box.min_x, 0), min_y |-> max(box.min_y, 0),
     max_x |-> box.max_x, max_y |-> box.max_y]

\* the four clamping assignments
Clamp(box, w, h) ==
    [min_x |-> max(box.min_x, 0), min_y |-> max(box.min_y, 0),
     max_x |-> min(box.max_x, w * Scale), max_y |-> min(box.max_y, h * Scale)]

\* the dict appended to merged_regions
AdjustedRegion(overlapping, m, w, h) ==
    LET box == Clamp(Expand(BoundingBox(overlapping), m), w, h)
        merged_width == box.max_x - box.min_x
        merged_height == box.max_y - box.min_y
    IN [position_x |-> int(box.min_x), position_y |-> int(box.min_y),
        width |-> int(merged_width), height |-> int(merged_height)]

\* while regions: ...
RECURSIVE WhileRegions(_, _, _, _, _, _, _, _)
WhileRegions(regs, merged, cl, bx, t, m, w, h) ==
    IF regs = <<>>
    THEN [regions |-> regs, merged_regions |-> merged, clusters |-> cl, boxes |-> bx]
    ELSE LET popped == Pop0(regs)
             scan == ScanOthers(popped.item, popped.rest, popped.rest,
                                <<popped.item>>, t)
             overlapping == scan.overlapping_regions
         IN WhileRegions(scan.regions,
                         Append(merged, AdjustedRegion(overlapping, m, w, h)),
                         Append(cl, overlapping),
                         Append(bx, BoundingBox(overlapping)),
                         t, m, w, h)

\* The call: what it returns, what it leaves in the caller's list, and the
\* overlapping_regions and bounding box of every iteration.
merge_and_adjust_regions(regs, t, m, w, h) ==
    WhileRegions(regs, <<>>, <<>>, <<>>, t, m, w, h)

\* A returned rectangle (whole pixels) as a region to pass in again
AsRegion(out) == Region(out.position_x, out.position_y, out.width, out.height)

AsRegions(list) == [i \in 1..Len(list) |-> AsRegion(list[i])]

----------------------------------------------------------------------------
(* Responses of the detection service *)

None == [value |-> "None", choices |-> <<>>]

NoResponse == [status |-> 0, body |-> "none", choices |-> <<>>]

\* Whole-pixel regions within the canvas, as a well-behaved detector returns them
RunRects == {r \in Rects : /\ r.position_x % Scale = 0
                           /\ r.position_y % Scale = 0
                           /\ r.width % Scale = 0
                           /\ r.position_x + r.width <= CanvasWidth * Scale
                           /\ r.position_y + r.height <= CanvasHeight * Scale}

\* One element of result["choices"]: a message without "function_call", one
\* whose arguments json.loads rejects, one whose arguments hold no "regions",
\* or one that carries a regions list
Choices ==
    [kind : {"no_function_call", "bad_arguments", "no_regions_field"},
     regions : {<<>>}]
    \cup [kind : {"function_call"}, regions : SeqsUpTo(RunRects, MaxRunRegions)]

Responses ==
    [status : {500}, body : {"error"}, choices : {<<>>}]
    \cup [status : {200}, body : {"not_json", "empty_object"}, choices : {<<>>}]
    \cup [status : {200}, body : {"object"}, choices : SeqsUpTo(Choices, MaxChoices)]

\* image_path1 and image_path2 of use_img_diff.py
image_path1 == [stem |-> "image_before", ext |-> ".png"]
image_path2 == [stem |-> "image_after", ext |-> ".png"]

----------------------------------------------------------------------------
(* Calls of merge_and_adjust_regions on bounded inputs *)

\* The inputs of the specification's worked examples, and two whole-pixel
\* regions of which the first reaches over the right edge of the canvas
Examples ==
    { [regions |-> <<Region(6, 0, 6, 2), Region(7, 0, 2, 2)>>,
       distance_threshold |-> 0, margin |-> 0, width |-> 10, height |-> 10] } \cup
    { [regions |-> <<Region(50, 50, 10, 10)>>,
       distance_threshold |-> 250, margin |-> 20, width |-> 500, height |-> 500],
      [regions |-> <<Region(10, 10, 10, 10), Region(20, 20, 10, 10)>>,
       distance_threshold |-> 250, margin |-> 0, width |-> 1000, height |-> 1000],
      [regions |-> <<Region(10, 10, 10, 10), Region(20, 20, 10, 10)>>,
       distance_threshold |-> 1, margin |-> 0, width |-> 1000, height |-> 1000] }

InitMerge ==
    /\ \/ /\ regions \in SeqsUpTo(Rects, MaxRegions)
          /\ distance_threshold \in 0..MaxThreshold
          /\ margin \in {0, MaxMargin}
          /\ width = CanvasWidth
          /\ height = CanvasHeight
       \/ \E e \in Examples :
            /\ regions = e.regions
            /\ distance_threshold = e.distance_threshold
            /\ margin = e.margin
            /\ width = e.width
            /\ height = e.height
    /\ given = regions
    /\ merged_regions = <<>>
    /\ clusters = <<>>
    /\ boxes = <<>>
    /\ remerged = <<>>
    /\ mpc = "call"
    /\ pc = "idle"
    /\ response = NoResponse
    /\ result = None
    /\ choice_no = 0
    /\ adjusted_regions = <<>>
    /\ idx = 0
    /\ printed = <<>>
    /\ saved = <<>>
    /\ merge_calls = 0

\* adjusted = merge_and_adjust_regions(regions, distance_threshold, margin, width, height)
MergeCall ==
    /\ mpc = "call"
    /\ LET r == merge_and_adjust_regions(regions, distance_threshold, margin,
                                         width, height)
       IN /\ regions' = r.regions
          /\ merged_regions' = r.merged_regions
          /\ clusters' = r.clusters
          /\ boxes' = r.boxes
    /\ mpc' = "returned"
    /\ UNCHANGED <<params, given, remerged, ovars>>

\* merge_and_adjust_regions(list(adjusted), 0, 0, width, height) after a first
\* call that was made with threshold 0 and margin 0
MergeAgain ==
    /\ mpc = "returned"
    /\ distance_threshold = 0
    /\ margin = 0
    /\ remerged' = merge_and_adjust_regions(AsRegions(merged_regions),
                       distance_threshold, margin, width, height).merged_regions
    /\ mpc' = "again"
    /\ UNCHANGED <<regions, params, given, merged_regions, clusters, boxes, ovars>>

NextMerge == MergeCall \/ MergeAgain

SpecMerge == InitMerge /\ [][NextMerge]_vars

----------------------------------------------------------------------------
(* process_images *)

\* f"{os.path.splitext(original_filename)[0]}_diff{index}.png"
Filename(original_filename, index) ==
    [stem |-> original_filename.stem, diff |-> index, ext |-> ".png"]

\* save_cropped_region: the box handed to image.crop and the file written
save_cropped_region(image, region, original_filename, index) ==
    [image |-> image,
     box |-> <<region.position_x, region.position_y,
               region.position_x + region.width, region.position_y + region.height>>,
     filename |-> Filename(original_filename, index),
     index |-> index]

Init ==
    /\ regions = <<>>
    /\ distance_threshold \in 0..MaxThreshold
    /\ margin \in {0, MaxMargin}
    /\ width = CanvasWidth
    /\ height = CanvasHeight
    /\ given = <<>>
    /\ merged_regions = <<>>
    /\ clusters = <<>>
    /\ boxes = <<>>
    /\ remerged = <<>>
    /\ mpc = "idle"
    /\ pc = "query"
    /\ response = NoResponse
    /\ result = None
    /\ choice_no = 0
    /\ adjusted_regions = <<>>
    /\ idx = 0
    /\ printed = <<>>
    /\ saved = <<>>
    /\ merge_calls = 0

\* result = self.query_openai(payload)
QueryOpenAI ==
    /\ pc = "query"
    /\ \E resp \in Responses :
         /\ response' = resp
         /\ IF resp.status # 200
            THEN /\ printed' = Append(printed, "Error: status")
                 /\ result' = None
                 /\ pc' = "check"
            ELSE IF resp.body = "not_json"
            THEN \* response.json() raises and nothing catches it
                 /\ printed' = printed
                 /\ result' = None
                 /\ pc' = "raised"
            ELSE /\ printed' = printed
                 /\ result' = [value |-> resp.body, choices |-> resp.choices]
                 /\ pc' = "check"
    /\ UNCHANGED <<regions, params, mvars, choice_no, adjusted_regions, idx, saved,
                   merge_calls>>

\* if result: / if "choices" in result and len(result["choices"]) > 0:
CheckResult ==
    /\ pc = "check"
    /\ IF result.value \in {"None", "empty_object"}
       THEN /\ printed' = Append(printed,
                                 "Error: Failed to get a valid response from OpenAI")
            /\ pc' = "done"
            /\ choice_no' = choice_no
       ELSE IF result.choices = <<>>
       THEN /\ printed' = Append(printed, "Error: No choices found in the response")
            /\ pc' = "done"
            /\ choice_no' = choice_no
       ELSE /\ printed' = printed
            /\ pc' = "choice"
            /\ choice_no' = 1
    /\ UNCHANGED <<regions, params, mvars, response, result, adjusted_regions, idx,
                   saved, merge_calls>>

AtChoice == pc = "choice" /\ choice_no <= Len(result.choices)

\* else: print("Error: Function call not found in the response"), and the
\* for loop goes on to the next choice
ChoiceWithoutFunctionCall ==
    /\ AtChoice
    /\ result.choices[choice_no].kind = "no_function_call"
    /\ printed' = Append(printed, "Error: Function call not found in the response")
    /\ choice_no' = choice_no + 1
    /\ UNCHANGED <<regions, params, mvars, pc, response, result, adjusted_regions,
                   idx, saved, merge_calls>>

\* json.loads(message["function_call"]["arguments"]) raises
ChoiceBadArguments ==
    /\ AtChoice
    /\ result.choices[choice_no].kind = "bad_arguments"
    /\ pc' = "raised"
    /\ UNCHANGED <<regions, params, mvars, response, result, choice_no,
                   adjusted_regions, idx, printed, saved, merge_calls>>

\* regions = arguments.get("regions", [])
ArgumentsRegions(choice) ==
    IF choice.kind = "no_regions_field" THEN <<>> ELSE choice.regions

\* if not regions: print("No differences found."); return
ChoiceNoRegions ==
    /\ AtChoice
    /\ result.choices[choice_no].kind \in {"function_call", "no_regions_field"}
    /\ ArgumentsRegions(result.choices[choice_no]) = <<>>
    /\ regions' = <<>>
    /\ printed' = Append(printed, "No differences found.")
    /\ pc' = "done"
    /\ UNCHANGED <<params, mvars, response, result, choice_no, adjusted_regions, idx,
                   saved, merge_calls>>

\* adjusted_regions = self.merge_and_adjust_regions(regions, ...)
ChoiceMerge ==
    /\ AtChoice
    /\ result.choices[choice_no].kind = "function_call"
    /\ ArgumentsRegions(result.choices[choice_no]) # <<>>
    /\ LET r == merge_and_adjust_regions(ArgumentsRegions(result.choices[choice_no]),
                                         distance_threshold, margin, width, height)
       IN /\ regions' = r.regions
          /\ adjusted_regions' = r.merged_regions
    /\ merge_calls' = merge_calls + 1
    /\ idx' = 0
    /\ pc' = "crop"
    /\ UNCHANGED <<params, mvars, response, result, choice_no, printed, saved>>

\* one iteration of "for idx, region in enumerate(adjusted_regions)"
SaveCrops ==
    /\ pc = "crop"
    /\ idx < Len(adjusted_regions)
    /\ LET region == adjusted_regions[idx + 1]
       IN saved' = saved \o
              <<save_cropped_region(1, region, image_path1, idx + 1),
                save_cropped_region(2, region, image_path2, idx + 1)>>
    /\ idx' = idx + 1
    /\ UNCHANGED <<regions, params, mvars, pc, response, result, choice_no,
                   adjusted_regions, printed, merge_calls>>

\* print(json.dumps(adjusted_regions, indent=2)), then the next choice
PrintRegions ==
    /\ pc = "crop"
    /\ idx = Len(adjusted_regions)
    /\ printed' = Append(printed, "regions")
    /\ choice_no' = choice_no + 1
    /\ pc' = "choice"
    /\ UNCHANGED <<regions, params, mvars, response, result, adjusted_regions, idx,
                   saved, merge_calls>>

\* the for loop over the choices is exhausted
Return ==
    /\ pc = "choice"
    /\ choice_no > Len(result.choices)
    /\ pc' = "done"
    /\ UNCHANGED <<regions, params, mvars, response, result, choice_no,
                   adjusted_regions, idx, printed, saved, merge_calls>>

Next ==
    \/ QueryOpenAI
    \/ CheckResult
    \/ ChoiceWithoutFunctionCall
    \/ ChoiceBadArguments
    \/ ChoiceNoRegions
    \/ ChoiceMerge
    \/ SaveCrops
    \/ PrintRegions
    \/ Return

Spec == Init /\ [][Next]_vars

----------------------------------------------------------------------------
(* Properties of merge_and_adjust_regions, checked under SpecMerge *)

Members(list) == {list[i] : i \in 1..Len(list)}

Count(list, v) == Cardinality({i \in 1..Len(list) : list[i] = v})

RECURSIVE Flatten(_)
Flatten(lists) ==
    IF lists = <<>> THEN <<>> ELSE Head(lists) \o Flatten(Tail(lists))

\* every field of r is a whole number of pixels
IsWhole(r) ==
    /\ r.position_x % Scale = 0
    /\ r.position_y % Scale = 0
    /\ r.width % Scale = 0
    /\ r.height % Scale = 0

\* r lies within the canvas
InCanvas(r) ==
    /\ 0 <= r.position_x
    /\ 0 <= r.position_y
    /\ r.position_x + r.width <= width * Scale
    /\ r.position_y + r.height <= height * Scale

\* r lies within box
Contains(box, r) ==
    /\ box.min_x <= r.position_x
    /\ box.min_y <= r.position_y
    /\ r.position_x + r.width <= box.max_x
    /\ r.position_y + r.height <= box.max_y

\* centre-to-centre Euclidean distance of a and b is at most t pixels
CentresWithin(a, b, t) ==
    LET dx == (2 * a.position_x + a.width) - (2 * b.position_x + b.width)
        dy == (2 * a.position_y + a.height) - (2 * b.position_y + b.height)
    IN dx * dx + dy * dy <= 4 * Scale * Scale * t * t

Returned == mpc \in {"returned", "again"}

\* C1: for integer inputs every emitted rectangle is its cluster's bounding box
\* expanded by margin on all four sides and clamped to the canvas:
\* x = max(min(x_i) - margin, 0), width = min(max(x_i + w_i) + margin, W) - x,
\* and likewise for y and height; the two worked examples give {30,30,50,50}
\* and the single rectangle {10,10,20,20}.
C1_ExpandedClampedBox ==
    (Returned /\ \A r \in Members(given) : IsWhole(r)) =>
        /\ Len(merged_regions) = Len(clusters)
        /\ \A k \in 1..Len(clusters) :
             LET c == clusters[k]
                 I == 1..Len(c)
                 x == max(SetMin({c[i].position_x \div Scale : i \in I}) - margin, 0)
                 y == max(SetMin({c[i].position_y \div Scale : i \in I}) - margin, 0)
                 right == min(SetMax({(c[i].position_x + c[i].width) \div Scale : i \in I})
                              + margin, width)
                 bottom == min(SetMax({(c[i].position_y + c[i].height) \div Scale : i \in I})
                               + margin, height)
             IN merged_regions[k] =
                    [position_x |-> x, position_y |-> y,
                     width |-> right - x, height |-> bottom - y]
        /\ (given = <<Region(50, 50, 10, 10)>> /\ margin = 20 /\ width = 500) =>
             merged_regions =
                 <<[position_x |-> 30, position_y |-> 30, width |-> 50, height |-> 50]>>
        /\ (given = <<Region(10, 10, 10, 10), Region(20, 20, 10, 10)>>
              /\ distance_threshold = 250 /\ margin = 0) =>
             merged_regions =
                 <<[position_x |-> 10, position_y |-> 10, width |-> 20, height |-> 20]>>

\* C1 witness: integer inputs, a cluster of two rectangles, and a margin that
\* pushes the box over the canvas on both sides of an axis
C1_Witness ==
    /\ mpc = "returned"
    /\ \A r \in Members(given) : IsWhole(r)
    /\ margin > 0
    /\ \E k \in 1..Len(clusters) :
         /\ Len(clusters[k]) >= 2
         /\ boxes[k].min_x - margin * Scale < 0
         /\ boxes[k].max_x + margin * Scale > width * Scale

\* C2: every returned rectangle lies within the canvas: 0 <= x, 0 <= y,
\* x + width <= canvasWidth, y + height <= canvasHeight, and no dimension
\* exceeds the canvas.
C2_OutputsWithinCanvas ==
    \A k \in 1..Len(merged_regions) :
        LET r == merged_regions[k]
        IN /\ 0 <= r.position_x
           /\ 0 <= r.position_y
           /\ r.position_x + r.width <= width
           /\ r.position_y + r.height <= height
           /\ r.width <= width
           /\ r.height <= height

\* C2 witness: a region at the canvas corner whose margin reaches past the
\* canvas on all four sides
C2_Witness ==
    /\ mpc = "returned"
    /\ \E k \in 1..Len(boxes) :
         /\ boxes[k].min_x - margin * Scale < 0
         /\ boxes[k].min_y - margin * Scale < 0
         /\ boxes[k].max_x + margin * Scale > width * Scale
         /\ boxes[k].max_y + margin * Scale > height * Scale

\* C3: the clusters partition the input list, counted by occurrence: every
\* input rectangle is in exactly one cluster, none is dropped or placed twice,
\* and one rectangle is emitted per cluster, degenerate ones included.
C3_ClustersPartitionInput ==
    Returned =>
        /\ \A k \in 1..Len(clusters) : Len(clusters[k]) >= 1
        /\ Len(Flatten(clusters)) = Len(given)
        /\ \A v \in Members(given) \cup Members(Flatten(clusters)) :
             Count(Flatten(clusters), v) = Count(given, v)
        /\ Len(merged_regions) = Len(clusters)

\* C3 witness: an input with two equal rectangles that forms several clusters,
\* one of which is emitted as a degenerate rectangle
C3_Witness ==
    /\ mpc = "returned"
    /\ \E i, j \in 1..Len(given) : i < j /\ given[i] = given[j]
    /\ Len(clusters) >= 2
    /\ \E k \in 1..Len(merged_regions) : merged_regions[k].width <= 0

\* C4 as stated: every input rectangle is contained in the pre-margin bounding
\* box of exactly one cluster.
C4_InExactlyOneBox ==
    Returned =>
        \A i \in 1..Len(given) :
            Cardinality({k \in 1..Len(boxes) : Contains(boxes[k], given[i])}) = 1

\* C4 amended: every input rectangle is contained in the pre-margin bounding
\* box of the cluster it belongs to, hence of at least one cluster, and the
\* boxes together cover all inputs.
C4_InOwnClusterBox ==
    Returned =>
        /\ Len(boxes) = Len(clusters)
        /\ \A k \in 1..Len(clusters) :
             \A r \in Members(clusters[k]) : Contains(boxes[k], r)
        /\ \A i \in 1..Len(given) :
             \E k \in 1..Len(clusters) :
                 given[i] \in Members(clusters[k]) /\ Contains(boxes[k], given[i])

\* C4 witness: an input rectangle that lies inside the boxes of two clusters
C4_Witness ==
    /\ mpc = "returned"
    /\ \E i \in 1..Len(given) :
         Cardinality({k \in 1..Len(boxes) : Contains(boxes[k], given[i])}) >= 2

\* C5 as stated: with threshold 0 and margin 0, merging the result again
\* returns it unchanged, for every input list.
C5_FixedPoint ==
    (mpc = "again" /\ distance_threshold = 0 /\ margin = 0) =>
        remerged = merged_regions

\* C5 amended: with threshold 0 and margin 0, for every input list of
\* rectangles with integer coordinates lying within the canvas, no two
\* rectangles of the result can be merged further and merging the result
\* again returns it unchanged.
C5_FixedPointInCanvas ==
    (/\ mpc = "again"
     /\ distance_threshold = 0
     /\ margin = 0
     /\ \A r \in Members(given) : IsWhole(r) /\ InCanvas(r)) =>
        /\ remerged = merged_regions
        /\ \A i, j \in 1..Len(merged_regions) :
             i # j => ~CentresWithin(AsRegion(merged_regions[i]),
                                     AsRegion(merged_regions[j]), 0)

\* C5 witness: integer rectangles within the canvas, some of them merged, and
\* a result of several rectangles that was merged again
C5_Witness ==
    /\ mpc = "again"
    /\ distance_threshold = 0
    /\ margin = 0
    /\ \A r \in Members(given) : IsWhole(r) /\ InCanvas(r)
    /\ Len(merged_regions) >= 2
    /\ Len(merged_regions) < Len(given)

\* C7: the call leaves the caller's list of regions as it was: the same
\* rectangles in the same order.
C7_InputUnchanged ==
    Returned => regions = given

\* The clusters of C10: the first rectangle of the worklist seeds a cluster
\* that takes the rectangles within t of the seed, the rest is the next worklist
RECURSIVE SeedClusters(_, _)
SeedClusters(work, t) ==
    IF work = <<>> THEN <<>>
    ELSE LET seed == Head(work)
             Near(r) == CentresWithin(seed, r, t)
             Far(r) == ~CentresWithin(seed, r, t)
         IN <<(<<seed>> \o SelectSeq(Tail(work), Near))>>
            \o SeedClusters(SelectSeq(Tail(work), Far), t)

\* C10: each cluster is the first rectangle still in the worklist plus exactly
\* the remaining rectangles whose centre is within distanceThreshold of that
\* seed's centre, never measured against absorbed members, and the outputs
\* come in the order the seeds were picked; the far pair of the worked example
\* stays two outputs equal to the inputs.
C10_SeedDistanceClusters ==
    Returned =>
        /\ clusters = SeedClusters(given, distance_threshold)
        /\ Len(merged_regions) = Len(clusters)
        /\ \A k \in 1..Len(clusters) :
             LET c == clusters[k]
                 I == 1..Len(c)
             IN /\ merged_regions[k].position_x =
                      int(max(SetMin({c[i].position_x : i \in I}) - margin * Scale, 0))
                /\ merged_regions[k].position_y =
                      int(max(SetMin({c[i].position_y : i \in I}) - margin * Scale, 0))
        /\ (given = <<Region(10, 10, 10, 10), Region(20, 20, 10, 10)>>
              /\ distance_threshold = 1 /\ margin = 0) =>
             merged_regions =
                 <<[position_x |-> 10, position_y |-> 10, width |-> 10, height |-> 10],
                   [position_x |-> 20, position_y |-> 20, width |-> 10, height |-> 10]>>

\* C10 witness: a rectangle within the threshold of an absorbed member but
\* farther than the threshold from the seed, left for a later cluster
C10_Witness ==
    /\ mpc = "returned"
    /\ \E k, j \in 1..Len(clusters) :
         /\ k < j
         /\ \E a \in 2..Len(clusters[k]) :
              \E b \in 1..Len(clusters[j]) :
                  /\ CentresWithin(clusters[k][a], clusters[j][b], distance_threshold)
                  /\ ~CentresWithin(clusters[k][1], clusters[j][b], distance_threshold)

----------------------------------------------------------------------------
(* Properties of process_images, checked under Spec *)

FailureMessages ==
    {"Error: status",
     "Error: Failed to get a valid response from OpenAI",
     "Error: No choices found in the response",
     "Error: Function call not found in the response"}

FailureReported == \E i \in 1..Len(printed) : printed[i] \in FailureMessages

NoDifferencesReported == \E i \in 1..Len(printed) : printed[i] = "No differences found."

\* C6: a run that reports a detection failure makes no merge call and no
\* crop/save call: no response, also one with several choices, leads to both
\* a reported failure and written crop files.
C6_FailureWithoutOutput ==
    FailureReported => (merge_calls = 0 /\ saved = <<>>)

\* C8: a run in which a completion carries an empty regions list, and which
\* therefore reports "no differences found", reports it with a message that is
\* no failure message, never calls the merger and makes no crop/save call
\* during the whole run.
C8_NoDifferencesWithoutOutput ==
    (/\ NoDifferencesReported
     /\ result.choices[choice_no].kind = "function_call"
     /\ result.choices[choice_no].regions = <<>>) =>
        /\ "No differences found." \notin FailureMessages
        /\ merge_calls = 0
        /\ saved = <<>>

\* C9: a run that ends with no failure and no empty result has made, for the
\* N-th consolidated region, exactly the two calls with index N, on image 1
\* and then on image 2, both with that region's box: 2 x (number of
\* consolidated regions) calls in all, and no filename written twice.
C9_TwoCropsPerRegion ==
    (pc = "done" /\ merge_calls >= 1 /\ ~FailureReported /\ ~NoDifferencesReported) =>
        /\ Len(saved) = 2 * Len(adjusted_regions)
        /\ \A n \in 1..Len(adjusted_regions) :
             /\ 2 * n <= Len(saved)
             /\ saved[2 * n - 1] =
                    save_cropped_region(1, adjusted_regions[n], image_path1, n)
             /\ saved[2 * n] =
                    save_cropped_region(2, adjusted_regions[n], image_path2, n)
        /\ \A i, j \in 1..Len(saved) :
             i # j => saved[i].filename # saved[j].filename

====
